---- MODULE Spec2Model ----
(***************************************************************************)
(* Model of the Winerp websocket client (src/src/client.ts) and of its     *)
(* message payload (src/unnamed/part_003, the types module).               *)
(*                                                                         *)
(* Spec    : one client ("A") against an arbitrary server that may send    *)
(*           any envelope of the bounded set Inbound at any time.          *)
(* SpecE2E : two clients ("A", "B") and a relay that answers every         *)
(*           Verification with Success and forwards every other envelope   *)
(*           unchanged to the other peer.                                  *)
(* FairSpec: Spec with weak fairness of the timer callbacks (a timer armed *)
(*           with setTimeout fires unless it is cleared).                  *)
(* SpecFaults: Spec plus messages that are not JSON text and handlers that *)
(*           throw before they return a promise.                           *)
(* SpecCodec: one payload through new MessagePayload, toString and         *)
(*           JSON.parse, for every input of the bounded set CodecInputs.   *)
(* SpecShared: the variant of the client with a static connection          *)
(*           (src/unnamed/part_001), instances constructed in any order.   *)
(***************************************************************************)
EXTENDS Integers, Sequences, FiniteSets, TLC

\* ------------------------------------------------------------------ bounds
\* Number of uuid4() values the run may draw (Verification and requests).
MaxUuid == 3
\* Upper bound on the number of envelopes one client sends, the replies of
\* the handler invocations still outstanding included.
MaxSent == 3

\* --------------------------------------------------------- program values
\* enum Paylods
success == 0
verification == 1
request == 2
response == 3
error == 4
ping == 5
information == 6
function_call == 7

Peers == {"A", "B"}
Other(c) == IF c = "A" THEN "B" ELSE "A"

\* An absent (undefined) string field, an absent uuid, an absent route.
Undefined == "<undefined>"
NoUuid == 0
NoRoute == <<>>
\* The value request() resolves with on the Error and timeout paths.
Null == "<null>"
\* JSON values of the data field: the empty mapping {} and {"pong": true}.
EmptyMap == "{}"
Pong == "{pong:true}"
AlreadyAuthorized == "Already authorized."
RouteNotFound == "Route not found"
InternalServerError == "Internal Server Error"

\* route is a string or a list of strings: the two shapes are kept apart.
RouteStr(s) == <<"str", s>>
RouteList(ds) == <<"list">> \o ds

Uuids == 1..MaxUuid
\* Correlation ids of the Request envelopes the server forwards to a client.
PeerUuids == {2, 101}

\* MessagePayload.constructor: data defaults to {} when it is falsy
\* (absent or the empty string); every other field is copied.
MessagePayload(msg) ==
  [id |-> msg.id, type |-> msg.type, route |-> msg.route,
   data |-> IF msg.data \in {Undefined, ""} THEN EmptyMap ELSE msg.data,
   traceback |-> msg.traceback, uuid |-> msg.uuid,
   destination |-> msg.destination]

\* An object literal with every optional field absent.
Blank(t) ==
  [id |-> Undefined, type |-> t, route |-> NoRoute, data |-> Undefined,
   traceback |-> Undefined, uuid |-> NoUuid, destination |-> Undefined]

\* Route handlers, by what the call does: it returns a promise that resolves
\* with a value or a promise that rejects with an Error or with another
\* value; Throwing throws before it returns a promise.
NoHandler == [kind |-> "none", value |-> Undefined]
Handlers ==
  { [kind |-> "returns", value |-> Pong],
    [kind |-> "rejectsError", value |-> "boom"],
    [kind |-> "rejectsOther", value |-> "oops"] }
Throwing == [kind |-> "throws", value |-> "boom"]
RouteNames == {"ping"}

\* A type value outside the Paylods enum, as a peer may put on the wire.
InvalidType == 8

\* The state of the promise returned by one request() call, by uuid.
\* calls counts the invocations of resolve().
Unissued == [status |-> "unissued", value |-> Null, via |-> "none", calls |-> 0]
Pending == [status |-> "pending", value |-> Null, via |-> "none", calls |-> 0]

\* The codec variable when no payload is on its way.
CodecIdle == [stage |-> "idle", msg |-> Blank(success),
              payload |-> Blank(success), wire |-> <<>>,
              decoded |-> Blank(success)]

VARIABLES
  conn,         \* readyState of the client's WebSocket
  authorized,   \* Client._authorized
  on_hold,      \* Client._on_hold
  routes,       \* Client.routes
  listeners,    \* respond listeners registered on "message", in order
  timers,       \* armed setTimeout handles, by the uuid of their request
  reqs,         \* promises returned by request(), by uuid
  invocations,  \* handler promises that have not settled yet
  sent,         \* envelopes passed to an open transport, in order
  outcome,      \* how the latest inform()/request() call returned
  nextUuid,     \* next value of uuid4()
  relayed,      \* number of envelopes of sent the relay has handled
  uncaught,     \* an exception left a listener of the client uncaught
  codec         \* a payload on its way through toString and JSON.parse

vars == <<conn, authorized, on_hold, routes, listeners, timers, reqs,
          invocations, sent, outcome, nextUuid, relayed, uncaught, codec>>

\* The fields set by the constructor and the bookkeeping around them:
\* nothing is authorized, registered or pending.
InitFields ==
  /\ authorized = [c \in Peers |-> FALSE]
  /\ on_hold = [c \in Peers |-> FALSE]
  /\ routes = [c \in Peers |-> [n \in RouteNames |-> NoHandler]]
  /\ listeners = [c \in Peers |-> <<>>]
  /\ timers = [c \in Peers |-> {}]
  /\ reqs = [c \in Peers |-> [u \in Uuids |-> Unissued]]
  /\ invocations = [c \in Peers |-> <<>>]
  /\ sent = [c \in Peers |-> <<>>]
  /\ outcome = [c \in Peers |-> "none"]
  /\ nextUuid = 1
  /\ relayed = [c \in Peers |-> 0]
  /\ uncaught = [c \in Peers |-> FALSE]

\* The state after new Client(): the constructor creates the instance's
\* connection and attaches its handlers.
InitClient ==
  /\ conn = [c \in Peers |-> "connecting"]
  /\ InitFields

Init ==
  /\ InitClient
  /\ codec = CodecIdle

\* ---------------------------------------------------------------- helpers
Range(s) == {s[i] : i \in 1..Len(s)}
Without(s, u) == SelectSeq(s, LAMBDA x : x # u)
RemoveAt(s, i) == SubSeq(s, 1, i - 1) \o SubSeq(s, i + 1, Len(s))

\* Client c has room for one more envelope within the bound.
Room(c) == Len(sent[c]) + Len(invocations[c]) < MaxSent

\* WebSocket.send: the data goes out on an open socket and is discarded on
\* a closed one.
Send(c, env) ==
  IF conn[c] = "open" THEN [sent EXCEPT ![c] = Append(@, env)] ELSE sent

\* resolve() of a promise: the first call settles it, later calls do nothing.
Resolve(p, v, how) ==
  IF p.status = "pending"
  THEN [status |-> "resolved", value |-> v, via |-> how, calls |-> p.calls + 1]
  ELSE [p EXCEPT !.calls = @ + 1]

\* Map.get on the route table; a key that was never set has no handler.
Lookup(c, r) ==
  IF Len(r) = 2 /\ r[1] = "str" /\ r[2] \in RouteNames
  THEN routes[c][r[2]] ELSE NoHandler

\* ------------------------------------------------------------- operations
\* Mutant of Open: the open event marks the client authorized.
OpenAuthorizes(c) ==
  /\ conn[c] = "connecting"
  /\ nextUuid <= MaxUuid
  /\ conn' = [conn EXCEPT ![c] = "open"]
  /\ sent' = [sent EXCEPT ![c] =
       Append(@, [Blank(verification) EXCEPT !.id = c, !.uuid = nextUuid])]
  /\ nextUuid' = nextUuid + 1
  /\ authorized' = [authorized EXCEPT ![c] = TRUE]
  /\ UNCHANGED <<uncaught, codec,
                 on_hold, routes, listeners, timers, reqs,
                 invocations, outcome, relayed>>

\* Transport "open" event: handleConnect calls __verify, which sends the
\* Verification envelope built from a plain object (no data field).
Open(c) ==
  /\ conn[c] = "connecting"
  /\ nextUuid <= MaxUuid
  /\ conn' = [conn EXCEPT ![c] = "open"]
  /\ sent' = [sent EXCEPT ![c] =
       Append(@, [Blank(verification) EXCEPT !.id = c, !.uuid = nextUuid])]
  /\ nextUuid' = nextUuid + 1
  /\ UNCHANGED <<uncaught, codec,
                 authorized, on_hold, routes, listeners, timers, reqs,
                 invocations, outcome, relayed>>

\* Transport "close" event: handleDisconnect logs and changes nothing.
handleDisconnect(c) ==
  UNCHANGED <<uncaught, codec,
              authorized, on_hold, routes, listeners, timers, reqs,
              invocations, sent, outcome, nextUuid, relayed>>

Close(c) ==
  /\ conn[c] # "closed"
  /\ conn' = [conn EXCEPT ![c] = "closed"]
  /\ handleDisconnect(c)

\* Client.route: Map.set, the latest registration replaces the earlier one.
RegisterRoute(c, name, handler) ==
  /\ routes[c][name] # handler
  /\ routes' = [routes EXCEPT ![c][name] = handler]
  /\ UNCHANGED <<uncaught, codec,
                 conn, authorized, on_hold, listeners, timers, reqs,
                 invocations, sent, outcome, nextUuid, relayed>>

\* Mutant of AuthorizedAfter: Error "Already authorized." authorizes too.
AuthorizedByError(c, env) ==
  IF env.type = success \/ (env.type = error /\ env.data = AlreadyAuthorized)
  THEN TRUE ELSE authorized[c]

\* Client.handleMessage, the effect on the authorization flags.
AuthorizedAfter(c, env) ==
  IF env.type = success THEN TRUE ELSE authorized[c]

\* Mutant of OnHoldAfter: Success does not clear on_hold.
OnHoldNotCleared(c, env) ==
  IF env.type = error /\ env.data = AlreadyAuthorized THEN TRUE
  ELSE on_hold[c]

OnHoldAfter(c, env) ==
  IF env.type = error /\ env.data = AlreadyAuthorized THEN TRUE
  ELSE IF env.type = success THEN FALSE
  ELSE on_hold[c]

\* Mutant of RouteNotFoundReply: the request's uuid is not echoed.
RouteNotFoundNoUuid(c, env) ==
  MessagePayload([Blank(error) EXCEPT
    !.id = c, !.data = RouteNotFound, !.traceback = RouteNotFound,
    !.destination = env.id])

\* The Error envelope sent for a Request whose route has no handler.
RouteNotFoundReply(c, env) ==
  MessagePayload([Blank(error) EXCEPT
    !.id = c, !.data = RouteNotFound, !.traceback = RouteNotFound,
    !.destination = env.id, !.uuid = env.uuid])

\* The call route(data.data) of handleMessage throws: the handler found for
\* the Request throws before it returns a promise.
HandlerThrows(c, env) ==
  /\ env.type = request
  /\ Lookup(c, env.route).kind = "throws"

\* Client.handleMessage, the dispatch of an inbound Request.
Dispatch(c, env) ==
  IF env.type # request \/ HandlerThrows(c, env)
  THEN UNCHANGED <<sent, invocations>>
  ELSE IF Lookup(c, env.route) = NoHandler
  THEN /\ Room(c)
       /\ sent' = Send(c, RouteNotFoundReply(c, env))
       /\ UNCHANGED invocations
  ELSE /\ Room(c)
       /\ invocations' = [invocations EXCEPT ![c] =
            Append(@, [handler |-> Lookup(c, env.route),
                       uuid |-> env.uuid, from |-> env.id])]
       /\ UNCHANGED sent

handleMessage(c, env) ==
  /\ authorized' = [authorized EXCEPT ![c] = AuthorizedAfter(c, env)]
  /\ on_hold' = [on_hold EXCEPT ![c] = OnHoldAfter(c, env)]
  /\ Dispatch(c, env)
  /\ uncaught' = [uncaught EXCEPT ![c] = @ \/ HandlerThrows(c, env)]

\* Mutant of Matches: the type is not compared.
MatchesAnyType(u, env) ==
  env.uuid = u

\* Mutant of Matches: the uuid is not compared.
MatchesAnyUuid(u, env) ==
  env.type \in {response, error}

\* The respond listener of request u acts on env: same uuid, and the type is
\* Response or Error.
Matches(u, env) ==
  /\ env.uuid = u
  /\ env.type \in {response, error}

\* Mutant of RespondValue: the Error branch resolves with the envelope's data.
RespondValueAlwaysData(env) == env.data

\* What the respond listener of request u passes to resolve().
RespondValue(env) ==
  IF env.type = response THEN env.data ELSE Null

RespondVia(env) ==
  IF env.type = response THEN "response" ELSE "error"

\* Mutant of respond: the listener is removed but clearTimeout is not called.
respondKeepsTimer(c, env) ==
  LET hit == {u \in Range(listeners[c]) : Matches(u, env)} IN
  /\ listeners' = [listeners EXCEPT ![c] =
       SelectSeq(@, LAMBDA u : u \notin hit)]
  /\ UNCHANGED timers
  /\ reqs' = [reqs EXCEPT ![c] =
       [u \in Uuids |->
          IF u \in hit
          THEN Resolve(reqs[c][u], RespondValue(env), RespondVia(env))
          ELSE reqs[c][u]]]

\* Every respond listener registered when the event is emitted runs on it.
respond(c, env) ==
  LET hit == {u \in Range(listeners[c]) : Matches(u, env)} IN
  /\ listeners' = [listeners EXCEPT ![c] =
       SelectSeq(@, LAMBDA u : u \notin hit)]
  /\ timers' = [timers EXCEPT ![c] = @ \ hit]
  /\ reqs' = [reqs EXCEPT ![c] =
       [u \in Uuids |->
          IF u \in hit
          THEN Resolve(reqs[c][u], RespondValue(env), RespondVia(env))
          ELSE reqs[c][u]]]

\* One "message" event: handleMessage runs first, then the respond listeners;
\* an exception thrown by handleMessage ends the emit before they run.
OnMessage(c, env) ==
  /\ conn[c] = "open"
  /\ handleMessage(c, env)
  /\ IF HandlerThrows(c, env)
     THEN UNCHANGED <<listeners, timers, reqs>>
     ELSE respond(c, env)
  /\ UNCHANGED <<codec,
                 conn, routes, outcome, nextUuid>>

\* One "message" event whose data is not JSON text: JSON.parse throws in
\* handleMessage before anything else is done, and the emit ends there.
OnMalformed(c) ==
  /\ conn[c] = "open"
  /\ uncaught' = [uncaught EXCEPT ![c] = TRUE]
  /\ UNCHANGED <<conn, authorized, on_hold, routes, listeners, timers, reqs,
                 invocations, sent, outcome, nextUuid, relayed, codec>>

\* The promise of a handler invocation settles: the then/catch callbacks of
\* handleMessage send the reply.
HandlerReply(c, inv) ==
  IF inv.handler.kind = "returns"
  THEN MessagePayload([Blank(response) EXCEPT
         !.id = c, !.data = inv.handler.value])
  ELSE MessagePayload([Blank(error) EXCEPT
         !.id = c,
         !.data = IF inv.handler.kind = "rejectsError"
                  THEN inv.handler.value ELSE InternalServerError])

\* Mutant of Settle: handlers complete in arrival order only, the reply sent
\* is always that of the oldest outstanding invocation.
SettleHead(c, i) ==
  /\ i \in 1..Len(invocations[c])
  /\ sent' = Send(c, HandlerReply(c, invocations[c][1]))
  /\ invocations' = [invocations EXCEPT ![c] = Tail(@)]
  /\ UNCHANGED <<uncaught, codec,
                 conn, authorized, on_hold, routes, listeners, timers, reqs,
                 outcome, nextUuid, relayed>>

Settle(c, i) ==
  /\ i \in 1..Len(invocations[c])
  /\ sent' = Send(c, HandlerReply(c, invocations[c][i]))
  /\ invocations' = [invocations EXCEPT ![c] = RemoveAt(@, i)]
  /\ UNCHANGED <<uncaught, codec,
                 conn, authorized, on_hold, routes, listeners, timers, reqs,
                 outcome, nextUuid, relayed>>

\* Mutant of Guard: the on-hold check is missing.
GuardNoHold(c) ==
  IF ~authorized[c] THEN "NotAuthorized" ELSE "accepted"

\* The guard of inform() and request(): the error thrown, or "accepted".
Guard(c) ==
  IF ~authorized[c] THEN "NotAuthorized"
  ELSE IF on_hold[c] THEN "OnHold"
  ELSE "accepted"

\* inform(): Array.isArray(destinations) ? destinations : [destinations]
DestinationList(destinations) ==
  IF destinations[1] = "str"
  THEN RouteList(<<destinations[2]>>)
  ELSE destinations

\* Mutant of Inform: the call is not guarded.
InformUnguarded(c, destinations, data) ==
  /\ outcome' = [outcome EXCEPT ![c] = "accepted"]
  /\ Room(c)
  /\ sent' = Send(c, MessagePayload([Blank(information) EXCEPT
               !.route = DestinationList(destinations), !.data = data]))
  /\ UNCHANGED <<uncaught, codec,
                 conn, authorized, on_hold, routes, listeners, timers, reqs,
                 invocations, nextUuid, relayed>>

\* Client.inform
Inform(c, destinations, data) ==
  /\ outcome' = [outcome EXCEPT ![c] = Guard(c)]
  /\ IF Guard(c) = "accepted"
     THEN /\ Room(c)
          /\ sent' = Send(c, MessagePayload([Blank(information) EXCEPT
                       !.route = DestinationList(destinations), !.data = data]))
     ELSE UNCHANGED sent
  /\ UNCHANGED <<uncaught, codec,
                 conn, authorized, on_hold, routes, listeners, timers, reqs,
                 invocations, nextUuid, relayed>>

\* Client.request
Request(c, destination, route, data) ==
  /\ outcome' = [outcome EXCEPT ![c] = Guard(c)]
  /\ IF Guard(c) = "accepted"
     THEN /\ nextUuid <= MaxUuid
          /\ Room(c)
          /\ sent' = Send(c, MessagePayload([Blank(request) EXCEPT
                       !.id = c, !.destination = destination,
                       !.route = route, !.data = data, !.uuid = nextUuid]))
          /\ listeners' = [listeners EXCEPT ![c] = Append(@, nextUuid)]
          /\ timers' = [timers EXCEPT ![c] = @ \cup {nextUuid}]
          /\ reqs' = [reqs EXCEPT ![c][nextUuid] = Pending]
          /\ nextUuid' = nextUuid + 1
     ELSE UNCHANGED <<sent, listeners, timers, reqs, nextUuid>>
  /\ UNCHANGED <<uncaught, codec,
                 conn, authorized, on_hold, routes, invocations, relayed>>

\* Mutant of Timeout: the respond listener is not removed.
TimeoutKeepsListener(c, u) ==
  /\ u \in timers[c]
  /\ timers' = [timers EXCEPT ![c] = @ \ {u}]
  /\ reqs' = [reqs EXCEPT ![c][u] = Resolve(@, Null, "timeout")]
  /\ UNCHANGED <<uncaught, codec,
                 conn, authorized, on_hold, routes, invocations, sent,
                 outcome, nextUuid, relayed, listeners>>

\* Mutant of Timeout: the callback removes the listener and does not resolve.
TimeoutNoResolve(c, u) ==
  /\ u \in timers[c]
  /\ timers' = [timers EXCEPT ![c] = @ \ {u}]
  /\ listeners' = [listeners EXCEPT ![c] = Without(@, u)]
  /\ UNCHANGED <<uncaught, codec,
                 conn, authorized, on_hold, routes, invocations, sent,
                 outcome, nextUuid, relayed, reqs>>

\* The setTimeout callback of request u.
Timeout(c, u) ==
  /\ u \in timers[c]
  /\ timers' = [timers EXCEPT ![c] = @ \ {u}]
  /\ listeners' = [listeners EXCEPT ![c] = Without(@, u)]
  /\ reqs' = [reqs EXCEPT ![c][u] = Resolve(@, Null, "timeout")]
  /\ UNCHANGED <<uncaught, codec,
                 conn, authorized, on_hold, routes, invocations, sent,
                 outcome, nextUuid, relayed>>

\* ------------------------------------------------------------ environment
\* Envelopes an arbitrary server may deliver to a client.
Inbound ==
  {Blank(success), Blank(ping), Blank(InvalidType)}
  \cup {[Blank(error) EXCEPT !.data = AlreadyAuthorized, !.uuid = u] :
          u \in {NoUuid} \cup Uuids}
  \cup {[Blank(t) EXCEPT !.id = "B", !.data = d, !.uuid = u] :
          t \in {response, error}, d \in {Pong, RouteNotFound}, u \in Uuids}
  \cup {[Blank(request) EXCEPT
           !.id = "B", !.destination = "A", !.uuid = u,
           !.route = RouteStr(r), !.data = EmptyMap] :
          u \in PeerUuids, r \in {"ping", "unknown"}}

Receive(c, env) ==
  /\ OnMessage(c, env)
  /\ UNCHANGED relayed

\* Arguments of inform() and request() the model draws from.
Destinations == {RouteList(<<"B">>), RouteStr("B")}
CallRoutes == {"ping", "unknown"}

Solo == "A"

Next ==
  \/ Open(Solo)
  \/ Close(Solo)
  \/ \E n \in RouteNames, h \in Handlers : RegisterRoute(Solo, n, h)
  \/ \E env \in Inbound : Receive(Solo, env)
  \/ \E i \in 1..MaxSent : Settle(Solo, i)
  \/ \E ds \in Destinations : Inform(Solo, ds, EmptyMap)
  \/ Request(Solo, "B", RouteStr("ping"), EmptyMap)
  \/ \E u \in Uuids : Timeout(Solo, u)

Spec == Init /\ [][Next]_vars

\* The faults of the environment added: a message that is not JSON text and
\* a registered handler that throws when it is called.
NextFaults ==
  \/ Next
  \/ OnMalformed(Solo)
  \/ \E n \in RouteNames : RegisterRoute(Solo, n, Throwing)

SpecFaults == Init /\ [][NextFaults]_vars

\* A timer armed with setTimeout fires unless clearTimeout cancels it.
FairSpec == Spec /\ \A u \in Uuids : WF_vars(Timeout(Solo, u))

\* The relay: it answers a Verification with Success and forwards every other
\* envelope unchanged, to its destination when it names a peer and to the
\* other peer otherwise.
RelayTarget(c, env) ==
  IF env.type = verification THEN c
  ELSE IF env.destination \in Peers THEN env.destination
  ELSE Other(c)

RelayOut(c, env) ==
  IF env.type = verification THEN Blank(success) ELSE env

Relay(c) ==
  /\ relayed[c] < Len(sent[c])
  /\ LET env == sent[c][relayed[c] + 1] IN
       OnMessage(RelayTarget(c, env), RelayOut(c, env))
  /\ relayed' = [relayed EXCEPT ![c] = @ + 1]

NextE2E ==
  \/ \E c \in Peers : Open(c)
  \/ \E c \in Peers : Close(c)
  \/ RegisterRoute("A", "ping", [kind |-> "returns", value |-> Pong])
  \/ \E r \in CallRoutes : Request("B", "A", RouteStr(r), EmptyMap)
  \/ \E c \in Peers : Relay(c)
  \/ \E c \in Peers, i \in 1..MaxSent : Settle(c, i)
  \/ \E c \in Peers, u \in Uuids : Timeout(c, u)

SpecE2E == Init /\ [][NextE2E]_vars

\* ------------------------------------------------- the shared connection
\* The variant of the client that keeps the connection in a static field:
\* conn[c] is "unbuilt" before new Client() ran for c and "shared" for an
\* instance whose constructor found the static connection already set.
HasSocket(c) == conn[c] \in {"connecting", "open", "closed"}

\* The state of the connection instance c sends on.
Transport(c) ==
  IF conn[c] = "shared"
  THEN conn[CHOOSE d \in Peers : HasSocket(d)]
  ELSE conn[c]

\* Client.__connect, called by the constructor: the socket is created and
\* the instance's handlers are attached only when no instance did so before.
connect(c) ==
  /\ conn[c] = "unbuilt"
  /\ conn' = [conn EXCEPT ![c] =
       IF \E d \in Peers : HasSocket(d) THEN "shared" ELSE "connecting"]
  /\ UNCHANGED <<authorized, on_hold, routes, listeners, timers, reqs,
                 invocations, sent, outcome, nextUuid, relayed, uncaught,
                 codec>>

InitShared ==
  /\ conn = [c \in Peers |-> "unbuilt"]
  /\ InitFields
  /\ codec = CodecIdle

\* Envelopes the server delivers on the shared connection.
InboundShared == {env \in Inbound : env.uuid \in {NoUuid, 101}}

NextShared ==
  \/ \E c \in Peers : connect(c)
  \/ \E c \in Peers : Open(c)
  \/ \E c \in Peers : HasSocket(c) /\ Close(c)
  \/ \E c \in Peers :
       /\ conn[c] # "unbuilt"
       /\ RegisterRoute(c, "ping", [kind |-> "returns", value |-> Pong])
  \/ \E c \in Peers, env \in InboundShared : Receive(c, env)
  \/ \E c \in Peers, i \in 1..MaxSent : Settle(c, i)
  \/ \E c \in Peers :
       /\ conn[c] # "unbuilt"
       /\ Request(c, Other(c), RouteStr("ping"), EmptyMap)
  \/ \E c \in Peers, u \in Uuids : Timeout(c, u)

SpecShared == InitShared /\ [][NextShared]_vars

\* ------------------------------------------------------------------ codec
\* JSON.stringify of one property: a property whose value is undefined is
\* left out; a string becomes a JSON string, a number a JSON number, a
\* mapping a JSON object and a list a JSON array.
JsonString(key, v) ==
  IF v = Undefined THEN <<>>
  ELSE <<[key |-> key, json |-> "string", text |-> v, items |-> <<>>]>>

JsonNumber(key, n) ==
  <<[key |-> key, json |-> "number", text |-> ToString(n), items |-> <<>>]>>

JsonUuid(key, u) ==
  IF u = NoUuid THEN <<>>
  ELSE <<[key |-> key, json |-> "string", text |-> ToString(u),
          items |-> <<>>]>>

JsonRoute(key, r) ==
  IF r = NoRoute THEN <<>>
  ELSE IF r[1] = "str"
  THEN <<[key |-> key, json |-> "string", text |-> r[2], items |-> <<>>]>>
  ELSE <<[key |-> key, json |-> "array", text |-> "", items |-> Tail(r)]>>

IsMapping(v) == v \in {EmptyMap, Pong}

JsonData(key, v) ==
  IF v = Undefined THEN <<>>
  ELSE IF IsMapping(v)
  THEN <<[key |-> key, json |-> "object", text |-> v, items |-> <<>>]>>
  ELSE <<[key |-> key, json |-> "string", text |-> v, items |-> <<>>]>>

\* MessagePayload.toString: the properties in the order of the object
\* literal (pseudo_object is never set by the client and is left out).
toString(p) ==
  JsonString("id", p.id) \o JsonNumber("type", p.type)
    \o JsonRoute("route", p.route) \o JsonData("data", p.data)
    \o JsonString("traceback", p.traceback) \o JsonUuid("uuid", p.uuid)
    \o JsonString("destination", p.destination)

\* JSON.parse, then the property reads of handleMessage: a property that is
\* not in the text reads as undefined.
Has(w, key) == \E i \in 1..Len(w) : w[i].key = key
Get(w, key) == w[CHOOSE i \in 1..Len(w) : w[i].key = key]

ParseString(w, key) == IF Has(w, key) THEN Get(w, key).text ELSE Undefined
ParseNumber(w, key) ==
  CHOOSE n \in 0..InvalidType : ToString(n) = Get(w, key).text
ParseUuid(w, key) ==
  IF Has(w, key)
  THEN CHOOSE u \in Uuids \cup PeerUuids : ToString(u) = Get(w, key).text
  ELSE NoUuid
ParseRoute(w, key) ==
  IF ~Has(w, key) THEN NoRoute
  ELSE IF Get(w, key).json = "string" THEN RouteStr(Get(w, key).text)
  ELSE RouteList(Get(w, key).items)

JSONparse(w) ==
  [id |-> ParseString(w, "id"), type |-> ParseNumber(w, "type"),
   route |-> ParseRoute(w, "route"), data |-> ParseString(w, "data"),
   traceback |-> ParseString(w, "traceback"), uuid |-> ParseUuid(w, "uuid"),
   destination |-> ParseString(w, "destination")]

\* The objects a caller may pass to the MessagePayload constructor: every
\* type of the enum; id, route, uuid, destination and traceback absent or
\* present; data absent, a mapping, the empty string or another string.
CodecInputs ==
  {[id |-> i, type |-> t, route |-> r, data |-> d, traceback |-> tb,
    uuid |-> u, destination |-> ds] :
     i \in {Undefined, "A"}, t \in 0..7,
     r \in {NoRoute, RouteStr("ping")},
     d \in {Undefined, EmptyMap, "", "hello"},
     tb \in {Undefined, "trace"}, u \in {NoUuid, 1},
     ds \in {Undefined, "B"}}

clientVars == <<conn, authorized, on_hold, routes, listeners, timers, reqs,
                invocations, sent, outcome, nextUuid, relayed, uncaught>>

InitCodec ==
  /\ InitClient
  /\ codec \in {[CodecIdle EXCEPT !.stage = "input", !.msg = m] :
                  m \in CodecInputs}

\* new MessagePayload(msg)
CodecConstruct ==
  /\ codec.stage = "input"
  /\ codec' = [codec EXCEPT !.stage = "built",
                            !.payload = MessagePayload(codec.msg)]
  /\ UNCHANGED clientVars

\* payload.toString(), as passed to connection.send
CodecEncode ==
  /\ codec.stage = "built"
  /\ codec' = [codec EXCEPT !.stage = "encoded",
                            !.wire = toString(codec.payload)]
  /\ UNCHANGED clientVars

\* JSON.parse(e.data.toString()) of the receiving handleMessage
CodecDecode ==
  /\ codec.stage = "encoded"
  /\ codec' = [codec EXCEPT !.stage = "decoded",
                            !.decoded = JSONparse(codec.wire)]
  /\ UNCHANGED clientVars

NextCodec == CodecConstruct \/ CodecEncode \/ CodecDecode

SpecCodec == InitCodec /\ [][NextCodec]_vars

\* ------------------------------------------------------------ properties
Last(s) == s[Len(s)]

\* A step that is a call of inform() or of request() by client c.
InformStep(c) == \E ds \in Destinations : Inform(c, ds, EmptyMap)
RequestStep(c) ==
  \E d \in Peers, r \in CallRoutes : Request(c, d, RouteStr(r), EmptyMap)
CallStep(c) == InformStep(c) \/ RequestStep(c)

\* The call threw.
Failed(c) == outcome'[c] \in {"NotAuthorized", "OnHold"}

\* C1: a call of request() or inform() made while authorized is false or
\* on_hold is true fails and changes nothing else: nothing is sent, no
\* listener is registered, no timer is armed, no promise is created and no
\* uuid is drawn; and no step appends a Request or Information envelope to
\* the transport while authorized is false or on_hold is true.
C1_GuardedCalls ==
  [][\A c \in Peers :
       (~authorized[c] \/ on_hold[c]) =>
         /\ CallStep(c) =>
              /\ Failed(c)
              /\ UNCHANGED <<sent, listeners, timers, reqs, nextUuid>>
         /\ Len(sent'[c]) > Len(sent[c]) =>
              Last(sent'[c]).type \notin {request, information}]_vars

C1_Witness ==
  /\ outcome["A"] = "NotAuthorized"
  /\ conn["A"] = "open"
  /\ ~authorized["A"]
  /\ Len(sent["A"]) = 1
  /\ listeners["A"] = <<>>
  /\ timers["A"] = {}

\* An Error envelope whose data is "Already authorized.".
IsAlreadyAuthorized(env) == env.type = error /\ env.data = AlreadyAuthorized

\* C2 as stated: once on hold, every inform()/request() call fails with the
\* on-hold error, whatever the client's state was when it was put on hold.
C2_OnHoldError ==
  [][\A c \in Peers :
       on_hold[c] /\ CallStep(c) => outcome'[c] = "OnHold"]_vars

\* C2 amended: an Error "Already authorized." puts the client on hold and only
\* a Success envelope takes it off hold; while it is on hold every inform()
\* and request() call fails and sends nothing, with the on-hold error when
\* the client is authorized and with the not-authorized error when it is
\* not; a Success envelope leaves the client authorized and off hold, and
\* calls made in that state are accepted.
C2_OnHoldUntilSuccess ==
  [][\A c \in Peers :
       /\ \A env \in Inbound :
            /\ (IsAlreadyAuthorized(env) /\ OnMessage(c, env)) => on_hold'[c]
            /\ (env.type = success /\ OnMessage(c, env)) =>
                 authorized'[c] /\ ~on_hold'[c]
       /\ on_hold[c] /\ ~on_hold'[c] => OnMessage(c, Blank(success))
       /\ on_hold[c] /\ CallStep(c) =>
            /\ outcome'[c] = IF authorized[c] THEN "OnHold"
                             ELSE "NotAuthorized"
            /\ UNCHANGED <<sent, listeners, timers, reqs>>
       /\ authorized[c] /\ ~on_hold[c] /\ CallStep(c) =>
            outcome'[c] = "accepted"]_vars

C2_Witness ==
  /\ on_hold["A"]
  /\ authorized["A"]
  /\ outcome["A"] = "OnHold"

\* C3: with requests u and v pending, a Response whose uuid is u resolves u
\* with the envelope's data and leaves v pending, its listener registered
\* and its timer armed.
C3_OnlyMatchingResolved ==
  [][\A c \in Peers, u \in Uuids :
       reqs[c][u].status = "pending" =>
         \A v \in Uuids \ {u} :
           reqs[c][v].status = "pending" =>
             \A env \in Inbound :
               (env.type = response /\ env.uuid = u /\ OnMessage(c, env)) =>
                 /\ reqs'[c][u] = [status |-> "resolved", value |-> env.data,
                                   via |-> "response", calls |-> 1]
                 /\ reqs'[c][v] = Pending
                 /\ v \in Range(listeners'[c])
                 /\ v \in timers'[c]]_vars

C3_Witness ==
  \E u \in Uuids, v \in Uuids :
    /\ reqs["A"][u].status = "resolved"
    /\ reqs["A"][u].via = "response"
    /\ reqs["A"][u].value = Pong
    /\ reqs["A"][v].status = "pending"
    /\ v \in Range(listeners["A"])
    /\ v \in timers["A"]

\* The parts of a client's state other than the authorization flags.
RequestState == <<reqs, listeners, timers, sent, invocations, routes,
                  outcome, nextUuid, conn>>

\* C4 as stated: a Response or Error that carries the uuid of a request
\* already resolved changes no client state.
C4_LateReplyChangesNothing ==
  [][\A c \in Peers, u \in Uuids, env \in Inbound :
       ( /\ reqs[c][u].status = "resolved"
         /\ env.uuid = u
         /\ env.type \in {response, error}
         /\ OnMessage(c, env) ) =>
         UNCHANGED <<RequestState, authorized, on_hold>>]_vars

\* C4 amended: resolve() is called at most once per request and a resolved
\* request keeps its result; a Response or Error that carries the uuid of a
\* resolved request changes neither the requests, listeners and timers nor
\* anything else of the client, except that an Error "Already authorized."
\* still sets on_hold.
C4_ResolvedOnce ==
  [][\A c \in Peers, u \in Uuids :
       /\ reqs'[c][u].calls <= 1
       /\ reqs[c][u].status = "resolved" =>
            /\ reqs'[c][u] = reqs[c][u]
            /\ \A env \in Inbound :
                 ( /\ env.uuid = u
                   /\ env.type \in {response, error}
                   /\ OnMessage(c, env) ) =>
                   /\ UNCHANGED <<RequestState, authorized>>
                   /\ on_hold'[c] =
                        (on_hold[c] \/ IsAlreadyAuthorized(env))]_vars

C4_Witness ==
  \E u \in Uuids :
    /\ reqs["A"][u].status = "resolved"
    /\ reqs["A"][u].via = "timeout"
    /\ reqs["A"][u].calls = 1
    /\ conn["A"] = "open"
    /\ u \notin timers["A"]
    /\ u \notin Range(listeners["A"])

\* The promise of a request resolved by its timer.
TimedOut == [status |-> "resolved", value |-> Null, via |-> "timeout",
             calls |-> 1]

\* C5: a pending request leaves the pending state only by the expiry of its
\* own timer, which resolves it with null, or by a Response or Error that
\* carries its uuid; a transport close and every other envelope leave it
\* pending with its timer armed; and with timers that eventually fire every
\* pending request is eventually resolved.
C5_ResolvesByTimeout ==
  /\ [][\A c \in Peers, u \in Uuids :
          reqs[c][u].status = "pending" =>
            /\ u \in timers[c]
            /\ reqs'[c][u] # reqs[c][u] =>
                 \/ Timeout(c, u) /\ reqs'[c][u] = TimedOut
                 \/ \E env \in Inbound :
                      /\ env.uuid = u
                      /\ env.type \in {response, error}
                      /\ OnMessage(c, env)
            /\ Timeout(c, u) => reqs'[c][u] = TimedOut
            /\ Close(c) => reqs'[c][u] = Pending /\ u \in timers'[c]]_vars
  /\ \A u \in Uuids :
       reqs[Solo][u].status = "pending" ~> reqs[Solo][u].status = "resolved"

C5_Witness ==
  \E u \in Uuids :
    /\ reqs["A"][u] = TimedOut
    /\ conn["A"] = "closed"

\* No handler is registered under the route of the envelope.
Unrouted(c, env) ==
  \A n \in RouteNames : env.route = RouteStr(n) => routes[c][n] = NoHandler

\* C6: a Request whose route has no handler is answered within the handling
\* of that message by exactly one envelope: type Error, data and traceback
\* "Route not found", destination the request's id, uuid the request's uuid;
\* no handler is invoked.
C6_RouteNotFound ==
  [][\A c \in Peers, env \in Inbound :
       (env.type = request /\ Unrouted(c, env) /\ OnMessage(c, env)) =>
         /\ sent'[c] = Append(sent[c],
              [id |-> c, type |-> error, route |-> NoRoute,
               data |-> RouteNotFound, traceback |-> RouteNotFound,
               uuid |-> env.uuid, destination |-> env.id])
         /\ UNCHANGED invocations]_vars

C6_Witness ==
  \E i \in 1..Len(sent["A"]) :
    /\ sent["A"][i].type = error
    /\ sent["A"][i].data = RouteNotFound
    /\ sent["A"][i].traceback = RouteNotFound
    /\ sent["A"][i].uuid \in PeerUuids
    /\ sent["A"][i].destination = "B"
    /\ invocations["A"] = <<>>

\* C7: when the handler of an inbound Request completes successfully, the
\* Response sent carries the handler's return value as data and the uuid of
\* the Request that triggered the handler.
C7_ResponseEchoesUuid ==
  [][\A c \in Peers, i \in 1..MaxSent :
       ( /\ i <= Len(invocations[c])
         /\ invocations[c][i].handler.kind = "returns"
         /\ conn[c] = "open"
         /\ Settle(c, i) ) =>
         /\ Len(sent'[c]) = Len(sent[c]) + 1
         /\ Last(sent'[c]).type = response
         /\ Last(sent'[c]).data = invocations[c][i].handler.value
         /\ Last(sent'[c]).uuid = invocations[c][i].uuid]_vars

\* The envelopes of type t among the first n that client c sent.
SentOfType(c, t, n) == {i \in 1..n : sent[c][i].type = t}

\* C8: in the two-client system, once every Request of B for route "ping"
\* has been answered by a Response of A that the relay delivered and no
\* timer of B has fired, each request of B is resolved with {"pong": true}
\* through the response path, and A sent no more Responses than B sent
\* Requests.
C8_PingResolves ==
  LET issued == {u \in Uuids : reqs["B"][u].status # "unissued"}
      pings == {i \in 1..Len(sent["B"]) :
                  /\ sent["B"][i].type = request
                  /\ sent["B"][i].route = RouteStr("ping")}
  IN  /\ Cardinality(SentOfType("A", response, Len(sent["A"])))
           <= Cardinality(pings)
      /\ ( /\ issued # {}
           /\ Cardinality(pings) = Cardinality(issued)
           /\ Cardinality(SentOfType("A", response, relayed["A"]))
                = Cardinality(issued)
           /\ \A u \in issued : reqs["B"][u].via # "timeout" ) =>
           \A u \in issued :
             reqs["B"][u] = [status |-> "resolved", value |-> Pong,
                             via |-> "response", calls |-> 1]

\* The next envelope of client c the relay will handle.
NextRelayed(c) == sent[c][relayed[c] + 1]

\* C9: in the two-client system a Request for a route without handler makes
\* the receiver send one Error "Route not found" with the request's uuid,
\* never a second one for that uuid; and when the relay delivers that Error
\* while the request is pending, the request resolves with null through the
\* error path, its timer cancelled and its listener removed.
C9_UnknownRoute ==
  [][\A c \in Peers, u \in Uuids :
       /\ ( /\ relayed[c] < Len(sent[c])
            /\ NextRelayed(c).type = request
            /\ NextRelayed(c).uuid = u
            /\ Unrouted(Other(c), NextRelayed(c))
            /\ Relay(c) ) =>
            /\ sent'[Other(c)] = Append(sent[Other(c)],
                 [id |-> Other(c), type |-> error, route |-> NoRoute,
                  data |-> RouteNotFound, traceback |-> RouteNotFound,
                  uuid |-> u, destination |-> c])
            /\ \A i \in 1..Len(sent[Other(c)]) :
                 sent[Other(c)][i].type = error =>
                   sent[Other(c)][i].uuid # u
       /\ ( /\ relayed[Other(c)] < Len(sent[Other(c)])
            /\ NextRelayed(Other(c)).type = error
            /\ NextRelayed(Other(c)).data = RouteNotFound
            /\ NextRelayed(Other(c)).uuid = u
            /\ reqs[c][u].status = "pending"
            /\ Relay(Other(c)) ) =>
            /\ reqs'[c][u] = [status |-> "resolved", value |-> Null,
                              via |-> "error", calls |-> 1]
            /\ u \notin timers'[c]
            /\ u \notin Range(listeners'[c])]_vars

C9_Witness ==
  \E u \in Uuids, i \in 1..Len(sent["A"]) :
    /\ reqs["B"][u].status = "resolved"
    /\ reqs["B"][u].via = "error"
    /\ reqs["B"][u].value = Null
    /\ u \notin timers["B"]
    /\ u \notin Range(listeners["B"])
    /\ sent["A"][i].type = error
    /\ sent["A"][i].data = RouteNotFound
    /\ sent["A"][i].uuid = u
    /\ relayed["A"] >= i

\* C10: after the transport closed the client is no longer authorized, so
\* the calls made after the close fail.
C10_CloseResets ==
  [][\A c \in Peers :
       /\ conn'[c] = "closed" => ~authorized'[c]
       /\ conn[c] = "closed" /\ CallStep(c) => Failed(c)]_vars

\* The uuids this process drew with uuid4() and put on the transport.
DrawnUuids ==
  UNION {{sent[c][i].uuid :
            i \in {j \in 1..Len(sent[c]) :
                     sent[c][j].type \in {verification, request}}} :
         c \in Peers}

\* C11: the open event sends exactly one envelope, the Verification with
\* id = local_name and a uuid drawn by no earlier envelope; it is the first
\* envelope of the connection and the only Verification; and the open event
\* leaves the client unauthorized.
C11_VerificationOnOpen ==
  [][\A c \in Peers :
       /\ Open(c) =>
            /\ sent[c] = <<>>
            /\ sent'[c] = <<[id |-> c, type |-> verification,
                             route |-> NoRoute, data |-> Undefined,
                             traceback |-> Undefined, uuid |-> nextUuid,
                             destination |-> Undefined]>>
            /\ nextUuid \notin DrawnUuids
            /\ ~authorized'[c]
       /\ (conn[c] = "connecting" /\ conn'[c] = "open") => Open(c)
       /\ sent'[c] # <<>> =>
            /\ conn'[c] # "connecting"
            /\ \A i \in 1..Len(sent'[c]) :
                 (sent'[c][i].type = verification) = (i = 1)]_vars

C11_Witness ==
  /\ conn["A"] = "open"
  /\ Len(sent["A"]) >= 2
  /\ sent["A"][1].type = verification
  /\ sent["A"][1].id = "A"
  /\ sent["A"][1].uuid = 1
  /\ ~authorized["A"]

\* C12: a Success envelope leaves authorized = TRUE and on_hold = FALSE
\* whatever the state was, and authorized turns TRUE in no step other than
\* the handling of a Success envelope.
C12_SuccessAuthorizes ==
  [][\A c \in Peers :
       /\ \A env \in Inbound :
            (env.type = success /\ OnMessage(c, env)) =>
              (authorized'[c] /\ ~on_hold'[c])
       /\ (~authorized[c] /\ authorized'[c]) =>
            \E env \in Inbound : env.type = success /\ OnMessage(c, env)]_vars

C12_Witness ==
  /\ authorized["A"]
  /\ ~on_hold["A"]
  /\ outcome["A"] = "OnHold"

\* A handler whose invocation fails, and the data of the Error envelope the
\* claim expects for the failure.
Fails(h) == h.kind \in {"rejectsError", "rejectsOther", "throws"}
FailureData(h) ==
  IF h.kind \in {"rejectsError", "throws"} THEN h.value
  ELSE InternalServerError

\* The state a handler failure has to leave alone.
ClientState == <<authorized, on_hold, routes, reqs, listeners, timers>>

\* C13: a failing handler never raises a local exception; the Request whose
\* handler fails is answered by exactly one Error envelope, carrying the
\* failure's message or "Internal Server Error", sent when the failure
\* happens, and the failure leaves authorized, on_hold, the route table and
\* the pending requests unchanged.
C13_HandlerFailureCaught ==
  [][\A c \in Peers :
       /\ \A env \in Inbound :
            (/\ env.type = request
             /\ Fails(Lookup(c, env.route))
             /\ OnMessage(c, env)) =>
              /\ uncaught'[c] = uncaught[c]
              /\ \/ /\ Len(invocations'[c]) = Len(invocations[c]) + 1
                    /\ sent'[c] = sent[c]
                 \/ /\ invocations'[c] = invocations[c]
                    /\ Len(sent'[c]) = Len(sent[c]) + 1
                    /\ Last(sent'[c]).type = error
                    /\ Last(sent'[c]).data =
                         FailureData(Lookup(c, env.route))
       /\ \A i \in 1..Len(invocations[c]) :
            (Fails(invocations[c][i].handler) /\ Settle(c, i)) =>
              /\ uncaught'[c] = uncaught[c]
              /\ Len(sent'[c]) = Len(sent[c]) + 1
              /\ Last(sent'[c]).type = error
              /\ Last(sent'[c]).data = FailureData(invocations[c][i].handler)
              /\ UNCHANGED ClientState]_vars

\* C14: a message that is not JSON text, or whose type is outside the enum,
\* raises no uncaught exception and changes nothing: flags, route table,
\* pending requests and the envelopes sent stay as they were.
C14_MalformedRejected ==
  [][\A c \in Peers :
       (OnMalformed(c) \/ OnMessage(c, Blank(InvalidType))) =>
         /\ uncaught'[c] = uncaught[c]
         /\ UNCHANGED ClientState
         /\ UNCHANGED <<sent, invocations>>]_vars

\* C15: decoding the encoded envelope gives back the field values the
\* envelope was built from; data that was absent reads as the empty mapping
\* and data that was supplied, the empty string included, reads unchanged.
C15_RoundTrip ==
  codec.stage = "decoded" =>
    /\ codec.decoded.id = codec.msg.id
    /\ codec.decoded.type = codec.msg.type
    /\ codec.decoded.route = codec.msg.route
    /\ codec.decoded.traceback = codec.msg.traceback
    /\ codec.decoded.uuid = codec.msg.uuid
    /\ codec.decoded.destination = codec.msg.destination
    /\ codec.decoded.data =
         IF codec.msg.data = Undefined THEN EmptyMap ELSE codec.msg.data

\* The requests of client c whose promise is not resolved yet, and the
\* number of "message" listeners on its connection: handleMessage, attached
\* by the constructor and never removed, and the respond listeners.
Unresolved(c) == {u \in Uuids : reqs[c][u].status = "pending"}
MessageListeners(c) == 1 + Len(listeners[c])

NoLeak ==
  \A c \in Peers :
    /\ MessageListeners(c) = 1 + Cardinality(Unresolved(c))
    /\ Range(listeners[c]) = Unresolved(c)
    /\ Cardinality(timers[c]) = Cardinality(Unresolved(c))
    /\ timers[c] = Unresolved(c)

\* C16: in every reachable state the message listeners are the client's own
\* handler plus one per unresolved request and the armed timers are one per
\* unresolved request; and the step that resolves a request, by response,
\* error or timeout, removes its listener and leaves its timer unarmed.
C16_NoLeak ==
  /\ []NoLeak
  /\ [][\A c \in Peers, u \in Uuids :
          (reqs[c][u].status = "pending" /\ reqs'[c][u].status = "resolved")
            => /\ u \in Range(listeners[c]) /\ u \notin Range(listeners'[c])
               /\ u \in timers[c] /\ u \notin timers'[c]
               /\ reqs'[c][u].via \in {"response", "error", "timeout"}]_vars

C16_Witness ==
  /\ reqs["A"][2].status = "resolved"
  /\ reqs["A"][2].via = "error"
  /\ reqs["A"][3].status = "pending"
  /\ listeners["A"] = <<3>>
  /\ timers["A"] = {3}

\* C17: an inbound Request, also one whose uuid is that of a pending
\* request, resolves nothing and removes no listener or timer, and it is
\* dispatched by the route table alone: Error "Route not found" when the
\* route has no handler, one handler invocation otherwise; Success and Error
\* "Already authorized." set the flags whatever requests are pending.
C17_ListenerConsumesNothing ==
  [][\A c \in Peers : \A env \in Inbound :
       /\ (env.type = request /\ OnMessage(c, env)) =>
            /\ UNCHANGED <<reqs, listeners, timers>>
            /\ (Lookup(c, env.route) = NoHandler) =>
                 /\ sent'[c] = Append(sent[c], RouteNotFoundReply(c, env))
                 /\ UNCHANGED invocations
            /\ (Lookup(c, env.route).kind \in
                  {"returns", "rejectsError", "rejectsOther"}) =>
                 /\ Len(invocations'[c]) = Len(invocations[c]) + 1
                 /\ Last(invocations'[c]).handler = Lookup(c, env.route)
                 /\ Last(invocations'[c]).uuid = env.uuid
                 /\ UNCHANGED sent
       /\ (env.type = success /\ OnMessage(c, env)) =>
            (authorized'[c] /\ ~on_hold'[c])
       /\ (IsAlreadyAuthorized(env) /\ OnMessage(c, env)) =>
            (on_hold'[c] /\ authorized'[c] = authorized[c])]_vars

C17_Witness ==
  \E u \in Uuids \cap PeerUuids :
    /\ reqs["A"][u].status = "pending"
    /\ u \in Range(listeners["A"])
    /\ \E i \in 1..Len(invocations["A"]) : invocations["A"][i].uuid = u

\* C18 as stated: while a handler invocation is outstanding no inbound
\* envelope is processed, and the replies leave in arrival order.
C18_HeadOfLineBlocking ==
  [][\A c \in Peers :
       /\ invocations[c] # <<>> => \A env \in Inbound : ~OnMessage(c, env)
       /\ \A i \in 1..Len(invocations[c]) : Settle(c, i) => i = 1]_vars

\* C18: an inbound Request is processed while handler invocations are
\* outstanding, its own invocation joining them behind the others; the reply
\* to an inbound Request is sent when its own handler completes, whatever
\* its place in the arrival order, and the invocations that arrived before
\* it stay outstanding.
C18_RepliesInCompletionOrder ==
  [][\A c \in Peers :
       /\ invocations[c] # <<>> =>
            \A env \in Inbound :
              (env.type = request /\ OnMessage(c, env)) =>
                /\ SubSeq(invocations'[c], 1, Len(invocations[c]))
                     = invocations[c]
                /\ Lookup(c, env.route) \in Handlers =>
                     /\ Len(invocations'[c]) = Len(invocations[c]) + 1
                     /\ Last(invocations'[c]).uuid = env.uuid
       /\ \A i \in 1..Len(invocations[c]) :
            Settle(c, i) =>
              /\ sent' = Send(c, HandlerReply(c, invocations[c][i]))
              /\ invocations'[c] = RemoveAt(invocations[c], i)
              /\ \A j \in 1..(i - 1) : invocations'[c][j] = invocations[c][j]
       /\ (Len(sent'[c]) > Len(sent[c]) /\ Last(sent'[c]).type = response) =>
            \E i \in 1..Len(invocations[c]) : Settle(c, i)]_vars

C18_Witness ==
  /\ Len(invocations["A"]) = 2
  /\ invocations["A"][1].handler # invocations["A"][2].handler
  /\ conn["A"] = "open"

\* C19 as stated: while on_hold is true the client sends no envelope.
C19_OnHoldSilent ==
  [][\A c \in Peers : on_hold[c] => sent'[c] = sent[c]]_vars

\* C19: while on_hold is true the client sends no Information, Request or
\* Verification envelope and its inform() and request() calls fail; the
\* replies to inbound Requests are still sent: the Response or Error of a
\* handler that completes and the Error "Route not found".
C19_OnHoldBlocksCallsOnly ==
  [][\A c \in Peers :
       on_hold[c] =>
         /\ sent'[c] # sent[c] =>
              /\ Len(sent'[c]) = Len(sent[c]) + 1
              /\ Last(sent'[c]).type \in {response, error}
         /\ InformStep(c) => (outcome'[c] # "accepted" /\ sent' = sent)
         /\ RequestStep(c) => (outcome'[c] # "accepted" /\ sent' = sent)
         /\ \A i \in 1..Len(invocations[c]) :
              (Settle(c, i) /\ conn[c] = "open") =>
                sent'[c] = Append(sent[c], HandlerReply(c, invocations[c][i]))
         /\ \A env \in Inbound :
              (/\ env.type = request
               /\ Lookup(c, env.route) = NoHandler
               /\ OnMessage(c, env)) =>
                sent'[c] = Append(sent[c], RouteNotFoundReply(c, env))]_vars

C19_Witness ==
  /\ on_hold["A"]
  /\ authorized["A"]
  /\ conn["A"] = "open"
  /\ outcome["A"] = "OnHold"
  /\ Len(sent["A"]) = 3
  /\ sent["A"][2].type = response
  /\ sent["A"][3].type = error
  /\ sent["A"][3].data = RouteNotFound

\* C20: every constructed instance has its handlers attached to a
\* connection of its own, and once the connection it sends on is open it
\* has sent the Verification carrying its own local_name.
C20_OwnConnection ==
  \A c \in Peers :
    conn[c] # "unbuilt" =>
      /\ HasSocket(c)
      /\ Transport(c) = "open" =>
           \E i \in 1..Len(sent[c]) :
             /\ sent[c][i].type = verification
             /\ sent[c][i].id = c

\* C21: an inform() call made while authorized and not on hold is accepted
\* and sends exactly one envelope, of type Information, whose route is the
\* list of the destinations and whose data is the data given; the flags, the
\* route table, the pending requests, the listeners and the timers are as
\* before.
C21_InformFrame ==
  [][\A c \in Peers : \A ds \in Destinations :
       (authorized[c] /\ ~on_hold[c] /\ Inform(c, ds, EmptyMap)) =>
         /\ outcome'[c] = "accepted"
         /\ sent'[c] = Append(sent[c],
              [id |-> Undefined, type |-> information,
               route |-> IF ds[1] = "str" THEN <<"list", ds[2]>> ELSE ds,
               data |-> EmptyMap, traceback |-> Undefined,
               uuid |-> NoUuid, destination |-> Undefined])
         /\ UNCHANGED <<authorized, on_hold, routes, reqs, listeners, timers,
                        invocations, nextUuid>>]_vars

\* A reply envelope: the Response or the Error that answers a Request.
IsReply(env) == env.type \in {response, error}

\* C22: every inbound Request gets exactly one reply. The step that receives
\* it either sends the one reply at once (no handler under its route) and
\* invokes nothing, or invokes the handler registered under its route at
\* that moment and sends nothing; the step in which an invoked handler
\* settles sends exactly one reply, a Response or an Error, and ends the
\* invocation; and no other step sends a Response or an Error.
C22_AnsweredOnce ==
  [][\A c \in Peers :
       /\ \A env \in Inbound :
            (env.type = request /\ OnMessage(c, env)) =>
              \/ /\ Lookup(c, env.route) = NoHandler
                 /\ Len(sent'[c]) = Len(sent[c]) + 1
                 /\ IsReply(Last(sent'[c]))
                 /\ UNCHANGED invocations
              \/ /\ Lookup(c, env.route) # NoHandler
                 /\ invocations'[c] = Append(invocations[c],
                      [handler |-> Lookup(c, env.route),
                       uuid |-> env.uuid, from |-> env.id])
                 /\ UNCHANGED sent
       /\ \A i \in 1..Len(invocations[c]) :
            Settle(c, i) =>
              /\ Len(sent'[c]) = Len(sent[c]) + 1
              /\ IsReply(Last(sent'[c]))
              /\ invocations'[c] = RemoveAt(invocations[c], i)
       /\ (sent'[c] # sent[c] /\ IsReply(Last(sent'[c]))) =>
            /\ Len(sent'[c]) = Len(sent[c]) + 1
            /\ \/ \E i \in 1..Len(invocations[c]) : Settle(c, i)
               \/ \E env \in Inbound :
                    /\ env.type = request
                    /\ Lookup(c, env.route) = NoHandler
                    /\ OnMessage(c, env)]_vars

====
